---- MODULE Spec2Model ----
(***************************************************************************)
(* Model of the worker-pool web scraper                                    *)
(* (web-scrapper-with-worker-pool/main.go).                                *)
(*                                                                         *)
(* Goroutines: main, the URL feeder, the result collector, numWorkers      *)
(* workers and the shutdown coordinator.  They share three unbuffered      *)
(* channels (urlChannel, resultChannel, done) and one sync.WaitGroup.      *)
(* A send on an unbuffered channel and the matching receive are one        *)
(* rendezvous step.                                                        *)
(*                                                                         *)
(* The module also models the broadcast (chat) websocket server, a         *)
(* separate program of the repository: one handler goroutine per           *)
(* connection, all sharing the map Server.conns without a lock.  It has    *)
(* its own specification, ChatSpec.                                        *)
(***************************************************************************)
EXTENDS Integers, Sequences, FiniteSets, Bags, TLC

\* ---------------------------------------------------------------- bounds
MaxWorkers == 2
MaxTasks == 2
MaxConns == 2       \* websocket connections the chat server sees
MaxMsgs == 1        \* messages each chat client sends

WorkerIds == 1..MaxWorkers
ConnIds == 1..MaxConns

\* main's hardcoded list of addresses; .../delay/1 occurs three times in it.
ProgramUrls ==
    << "delay/1", "delay/2", "delay/1", "get",
       "delay/3", "status/200", "delay/1", "json" >>

\* The task lists: the first M addresses of the program's list, for every
\* M in 0..MaxTasks.
TaskLists == {SubSeq(ProgramUrls, 1, m) : m \in 0..MaxTasks}

\* ----------------------------------------------------------------- state
VARIABLES
    numWorkers,     \* main: numWorkers
    urls,           \* main: urls
    mainPc,         \* main goroutine's position
    spawnI,         \* main: loop variable i of the worker-start loop
    mainResults,    \* main: results (received from done)
    feederPc,       \* feeder goroutine's position
    feedI,          \* feeder: index (1-based) of the next url to send
    urlClosed,      \* urlChannel has been closed
    workerPc,       \* worker goroutines' positions
    workerUrl,      \* worker: loop variable url
    workerResult,   \* worker: local variable result
    wg,             \* the WaitGroup's counter
    coordPc,        \* coordinator goroutine's position
    resultClosed,   \* resultChannel has been closed
    collectorPc,    \* collector goroutine's position
    results,        \* resultCollector: results
    resultCount,    \* resultCollector: resultCount
    panicked,       \* the runtime panic that ended the program (NoPanic when none)
    \* history variables (record what happened; never read by the program)
    recvLog,        \* the receives on urlChannel in order: [task, worker],
                    \* task = the index in urls of the url that was sent
    scrapeLog,      \* scrapeLog[w] = worker w's scrapeURL calls in call order: [task, failed]
    arrivals,       \* the receives on resultChannel in order: [from, task, result]
    doneSends,      \* number of completed sends on done
    resultCloses,   \* number of close(resultChannel) calls
    \* the chat server
    conns,          \* Server.conns: the keys of the map
    hPc,            \* position of the handler goroutine of each connection
    writers,        \* handlers in the middle of the map write s.conns[ws] = true
    toVisit,        \* broadcast: the keys the range over s.conns has yet to produce
    sent,           \* messages read from each connection so far
    fatal,          \* the runtime's fatal error that ended the server (NoFatal when none)
    \* history variables of the chat server
    attempts,       \* the ws.Write calls broadcast started: <<sender, message number, target>>
    endedAtStart    \* per handler: the connections already ended when its
                    \* current broadcast started

poolVars == <<numWorkers, urls, mainPc, spawnI, mainResults, feederPc, feedI,
              urlClosed, workerPc, workerUrl, workerResult, wg, coordPc,
              resultClosed, collectorPc, results, resultCount, panicked,
              recvLog, scrapeLog, arrivals, doneSends, resultCloses>>

chatVars == <<conns, hPc, writers, toVisit, sent, fatal, attempts, endedAtStart>>

vars == <<poolVars, chatVars>>

mainVars == <<mainPc, spawnI, mainResults>>
feederVars == <<feederPc, feedI, urlClosed>>
workerVars == <<workerPc, workerUrl, workerResult>>
collectorVars == <<collectorPc, results, resultCount>>
coordVars == <<coordPc, resultClosed>>
inputVars == <<numWorkers, urls>>
histVars == <<recvLog, scrapeLog, arrivals, doneSends, resultCloses>>

\* ------------------------------------------------------------ data model
\* The Go runtime's panics that the program's channel and WaitGroup
\* operations can raise; an unrecovered panic ends the whole program.
NoPanic == "none"
SendOnClosed == "send on closed channel"
CloseOfClosed == "close of closed channel"
NegativeCounter == "sync: negative WaitGroup counter"

NoUrl == "-"

\* The zero ScrapeResult.
NoResult == [URL |-> NoUrl, StatusCode |-> 0, Error |-> "nil"]

\* Mutant: the error http.Get returned is not put in the result.
scrapeURL_DropsError(url, failed) ==
    IF failed
    THEN [URL |-> url, StatusCode |-> 0, Error |-> "nil"]
    ELSE [URL |-> url, StatusCode |-> 200, Error |-> "nil"]

\* scrapeURL: http.Get either fails (failed = TRUE) or answers; the result
\* carries the url, and the error exactly when http.Get returned one.
scrapeURL(url, failed) ==
    IF failed
    THEN [URL |-> url, StatusCode |-> 0, Error |-> "err"]
    ELSE [URL |-> url, StatusCode |-> 200, Error |-> "nil"]

\* The task a worker holds: the task of its last receive (0 when none).
CurTask(w) ==
    LET got == {k \in 1..Len(recvLog) : recvLog[k].worker = w}
    IN IF got = {} THEN 0
       ELSE recvLog[CHOOSE k \in got : \A j \in got : j <= k].task

\* The chat server's fatal errors: the Go runtime ends the program when it
\* detects unsynchronized concurrent use of a map.
NoFatal == "none"
ConcurrentMapWrites == "fatal error: concurrent map writes"
ConcurrentMapIteration == "fatal error: concurrent map iteration and map write"

\* NewServer(): an empty conns map; no client has connected.
ChatStart ==
    /\ conns = {}
    /\ hPc = [c \in ConnIds |-> "idle"]
    /\ writers = {}
    /\ toVisit = [c \in ConnIds |-> {}]
    /\ sent = [c \in ConnIds |-> 0]
    /\ fatal = NoFatal
    /\ attempts = {}
    /\ endedAtStart = [c \in ConnIds |-> {}]

\* -------------------------------------------------------------- initial
Init ==
    /\ ChatStart
    /\ numWorkers \in (-1)..MaxWorkers
    /\ urls \in TaskLists
    /\ mainPc = "goFeeder"
    /\ spawnI = 1
    /\ mainResults = <<>>
    /\ feederPc = "absent"
    /\ feedI = 1
    /\ urlClosed = FALSE
    /\ workerPc = [w \in WorkerIds |-> "absent"]
    /\ workerUrl = [w \in WorkerIds |-> NoUrl]
    /\ workerResult = [w \in WorkerIds |-> NoResult]
    /\ wg = 0
    /\ coordPc = "absent"
    /\ resultClosed = FALSE
    /\ collectorPc = "absent"
    /\ results = <<>>
    /\ resultCount = 0
    /\ panicked = NoPanic
    /\ recvLog = <<>>
    /\ scrapeLog = [w \in WorkerIds |-> <<>>]
    /\ arrivals = <<>>
    /\ doneSends = 0
    /\ resultCloses = 0

\* ----------------------------------------------------------------- main
\* go func() { ...feeder... }()
MainGoFeeder ==
    /\ panicked = NoPanic
    /\ UNCHANGED chatVars
    /\ mainPc = "goFeeder"
    /\ mainPc' = "goCollector"
    /\ feederPc' = "send"
    /\ UNCHANGED panicked
    /\ UNCHANGED <<spawnI, mainResults, feedI, urlClosed, workerVars, wg,
                   coordVars, collectorVars, inputVars, histVars>>

\* go resultCollector(resultChannel, &wg, done)
MainGoCollector ==
    /\ panicked = NoPanic
    /\ UNCHANGED chatVars
    /\ mainPc = "goCollector"
    /\ mainPc' = "spawn"
    /\ collectorPc' = "recv"
    /\ UNCHANGED panicked
    /\ UNCHANGED <<spawnI, mainResults, feederVars, workerVars, wg,
                   coordVars, results, resultCount, inputVars, histVars>>

\* Mutant: the loop starts the worker without wg.Add(1).
MainSpawnWorker_NoAdd ==
    /\ panicked = NoPanic
    /\ UNCHANGED chatVars
    /\ mainPc = "spawn"
    /\ spawnI <= numWorkers
    /\ workerPc' = [workerPc EXCEPT ![spawnI] = "recv"]
    /\ spawnI' = spawnI + 1
    /\ UNCHANGED panicked
    /\ UNCHANGED <<mainPc, mainResults, feederVars, workerUrl, workerResult,
                   wg, coordVars, collectorVars, inputVars, histVars>>

\* One iteration of: for i := 1; i <= numWorkers; i++ { wg.Add(1); go worker(...) }
MainSpawnWorker ==
    /\ panicked = NoPanic
    /\ UNCHANGED chatVars
    /\ mainPc = "spawn"
    /\ spawnI <= numWorkers
    /\ wg' = wg + 1
    /\ workerPc' = [workerPc EXCEPT ![spawnI] = "recv"]
    /\ spawnI' = spawnI + 1
    /\ UNCHANGED panicked
    /\ UNCHANGED <<mainPc, mainResults, feederVars, workerUrl, workerResult,
                   coordVars, collectorVars, inputVars, histVars>>

\* The loop's exit test fails: main goes on to start the coordinator.
MainSpawnDone ==
    /\ panicked = NoPanic
    /\ UNCHANGED chatVars
    /\ mainPc = "spawn"
    /\ spawnI > numWorkers
    /\ mainPc' = "goCoordinator"
    /\ UNCHANGED panicked
    /\ UNCHANGED <<spawnI, mainResults, feederVars, workerVars, wg,
                   coordVars, collectorVars, inputVars, histVars>>

\* go func() { wg.Wait(); close(resultChannel) }()
MainGoCoordinator ==
    /\ panicked = NoPanic
    /\ UNCHANGED chatVars
    /\ mainPc = "goCoordinator"
    /\ mainPc' = "waitDone"
    /\ coordPc' = "wait"
    /\ UNCHANGED panicked
    /\ UNCHANGED <<spawnI, mainResults, feederVars, workerVars, wg,
                   resultClosed, collectorVars, inputVars, histVars>>

\* --------------------------------------------------------------- feeder
\* Mutant: the feeder sends the first url twice (its index does not advance
\* after the first send).
Feed_Resend(w) ==
    /\ panicked = NoPanic
    /\ UNCHANGED chatVars
    /\ feederPc = "send"
    /\ feedI <= Len(urls)
    /\ IF urlClosed
       THEN /\ panicked' = SendOnClosed
            /\ UNCHANGED <<feedI, workerPc, workerUrl, recvLog>>
       ELSE /\ workerPc[w] = "recv"
            /\ workerUrl' = [workerUrl EXCEPT ![w] = urls[feedI]]
            /\ workerPc' = [workerPc EXCEPT ![w] = "scrape"]
            /\ feedI' = IF recvLog = <<>> THEN feedI ELSE feedI + 1
            /\ recvLog' = Append(recvLog, [task |-> feedI, worker |-> w])
            /\ UNCHANGED panicked
    /\ UNCHANGED <<feederPc, urlClosed, mainVars, workerResult, wg, coordVars,
                   collectorVars, inputVars, scrapeLog, arrivals, doneSends,
                   resultCloses>>

\* Mutant: a worker takes the next url while its previous result is still
\* waiting to be received (the publish does not block the worker).
Feed_WhileSending(w) ==
    /\ panicked = NoPanic
    /\ UNCHANGED chatVars
    /\ feederPc = "send"
    /\ feedI <= Len(urls)
    /\ IF urlClosed
       THEN /\ panicked' = SendOnClosed
            /\ UNCHANGED <<feedI, workerPc, workerUrl, recvLog>>
       ELSE /\ workerPc[w] \in {"recv", "send"}
            /\ workerUrl' = [workerUrl EXCEPT ![w] = urls[feedI]]
            /\ workerPc' = [workerPc EXCEPT ![w] = "scrape"]
            /\ feedI' = feedI + 1
            /\ recvLog' = Append(recvLog, [task |-> feedI, worker |-> w])
            /\ UNCHANGED panicked
    /\ UNCHANGED <<feederPc, urlClosed, mainVars, workerResult, wg, coordVars,
                   collectorVars, inputVars, scrapeLog, arrivals, doneSends,
                   resultCloses>>

\* urlChannel <- url, met by a worker's receive in: for url := range urlChannel
Feed(w) ==
    /\ panicked = NoPanic
    /\ UNCHANGED chatVars
    /\ feederPc = "send"
    /\ feedI <= Len(urls)
    /\ IF urlClosed
       THEN /\ panicked' = SendOnClosed
            /\ UNCHANGED <<feedI, workerPc, workerUrl, recvLog>>
       ELSE /\ workerPc[w] = "recv"
            /\ workerUrl' = [workerUrl EXCEPT ![w] = urls[feedI]]
            /\ workerPc' = [workerPc EXCEPT ![w] = "scrape"]
            /\ feedI' = feedI + 1
            /\ recvLog' = Append(recvLog, [task |-> feedI, worker |-> w])
            /\ UNCHANGED panicked
    /\ UNCHANGED <<feederPc, urlClosed, mainVars, workerResult, wg, coordVars,
                   collectorVars, inputVars, scrapeLog, arrivals, doneSends,
                   resultCloses>>

\* Mutant: the feeder's loop stops one url short (off by one) and closes.
FeederClose_Early ==
    /\ panicked = NoPanic
    /\ UNCHANGED chatVars
    /\ feederPc = "send"
    /\ feedI >= Len(urls)
    /\ panicked' = IF urlClosed THEN CloseOfClosed ELSE panicked
    /\ urlClosed' = TRUE
    /\ feederPc' = "done"
    /\ UNCHANGED <<feedI, mainVars, workerVars, wg, coordVars, collectorVars,
                   inputVars, histVars>>

\* close(urlChannel), after the range over urls has ended
FeederClose ==
    /\ panicked = NoPanic
    /\ UNCHANGED chatVars
    /\ feederPc = "send"
    /\ feedI > Len(urls)
    /\ panicked' = IF urlClosed THEN CloseOfClosed ELSE panicked
    /\ urlClosed' = TRUE
    /\ feederPc' = "done"
    /\ UNCHANGED <<feedI, mainVars, workerVars, wg, coordVars, collectorVars,
                   inputVars, histVars>>

\* --------------------------------------------------------------- worker
\* Mutant: a worker whose scrape failed returns instead of publishing.
WorkerScrape_ReturnOnError(w) ==
    /\ panicked = NoPanic
    /\ UNCHANGED chatVars
    /\ workerPc[w] = "scrape"
    /\ \E failed \in BOOLEAN :
        /\ workerResult' = [workerResult EXCEPT ![w] = scrapeURL(workerUrl[w], failed)]
        /\ scrapeLog' = [scrapeLog EXCEPT ![w] =
                            Append(@, [task |-> CurTask(w), failed |-> failed])]
        /\ workerPc' = [workerPc EXCEPT ![w] = IF failed THEN "return" ELSE "send"]
    /\ UNCHANGED panicked
    /\ UNCHANGED <<workerUrl, mainVars, feederVars, wg, coordVars,
                   collectorVars, inputVars, recvLog, arrivals, doneSends,
                   resultCloses>>

\* result := scrapeURL(url)
WorkerScrape(w) ==
    /\ panicked = NoPanic
    /\ UNCHANGED chatVars
    /\ workerPc[w] = "scrape"
    /\ \E failed \in BOOLEAN :
        /\ workerResult' = [workerResult EXCEPT ![w] = scrapeURL(workerUrl[w], failed)]
        /\ scrapeLog' = [scrapeLog EXCEPT ![w] =
                            Append(@, [task |-> CurTask(w), failed |-> failed])]
    /\ workerPc' = [workerPc EXCEPT ![w] = "send"]
    /\ UNCHANGED panicked
    /\ UNCHANGED <<workerUrl, mainVars, feederVars, wg, coordVars,
                   collectorVars, inputVars, recvLog, arrivals, doneSends,
                   resultCloses>>

\* The range over urlChannel ends: the channel is closed (and, being
\* unbuffered, empty).
WorkerSeeClosed(w) ==
    /\ panicked = NoPanic
    /\ UNCHANGED chatVars
    /\ workerPc[w] = "recv"
    /\ urlClosed
    /\ workerPc' = [workerPc EXCEPT ![w] = "return"]
    /\ UNCHANGED panicked
    /\ UNCHANGED <<workerUrl, workerResult, mainVars, feederVars, wg,
                   coordVars, collectorVars, inputVars, histVars>>

\* Mutant: the worker returns without calling wg.Done().
WorkerDone_NoDone(w) ==
    /\ panicked = NoPanic
    /\ UNCHANGED chatVars
    /\ workerPc[w] = "return"
    /\ workerPc' = [workerPc EXCEPT ![w] = "exited"]
    /\ UNCHANGED <<workerUrl, workerResult, wg, panicked, mainVars, feederVars,
                   coordVars, collectorVars, inputVars, histVars>>

\* Mutant: wg.Done() is called twice (once explicitly, once deferred).
WorkerDone_Twice(w) ==
    /\ panicked = NoPanic
    /\ UNCHANGED chatVars
    /\ workerPc[w] = "return"
    /\ wg' = wg - 2
    /\ panicked' = IF wg - 2 < 0 THEN NegativeCounter ELSE panicked
    /\ workerPc' = [workerPc EXCEPT ![w] = "exited"]
    /\ UNCHANGED <<workerUrl, workerResult, mainVars, feederVars, coordVars,
                   collectorVars, inputVars, histVars>>

\* defer wg.Done()
WorkerDone(w) ==
    /\ panicked = NoPanic
    /\ UNCHANGED chatVars
    /\ workerPc[w] = "return"
    /\ wg' = wg - 1
    /\ panicked' = IF wg - 1 < 0 THEN NegativeCounter ELSE panicked
    /\ workerPc' = [workerPc EXCEPT ![w] = "exited"]
    /\ UNCHANGED <<workerUrl, workerResult, mainVars, feederVars, coordVars,
                   collectorVars, inputVars, histVars>>

\* ------------------------------------------------------------ collector
\* Mutant: the collector keeps only the results without an error.
CollectorAppend_DropFailed(rs, r) == IF r.Error = "nil" THEN Append(rs, r) ELSE rs

\* Mutant: the collector puts the new result in front.
CollectorAppend_Prepend(rs, r) == <<r>> \o rs

\* Mutant: the collector assigns instead of appending.
CollectorAppend_Overwrite(rs, r) == <<r>>

\* The collector's append: results = append(results, result)
CollectorAppend(rs, r) == Append(rs, r)

\* resultChannel <- result, met by the collector's: for result := range resultChannel
\* A send on the closed resultChannel panics.
Collect(w) ==
    /\ panicked = NoPanic
    /\ UNCHANGED chatVars
    /\ workerPc[w] = "send"
    /\ IF resultClosed
       THEN /\ panicked' = SendOnClosed
            /\ UNCHANGED <<resultCount, results, arrivals, workerPc>>
       ELSE /\ collectorPc = "recv"
            /\ resultCount' = resultCount + 1
            /\ results' = CollectorAppend(results, workerResult[w])
            /\ arrivals' = Append(arrivals, [from |-> w, task |-> CurTask(w),
                                             result |-> workerResult[w]])
            /\ workerPc' = [workerPc EXCEPT ![w] = "recv"]
            /\ UNCHANGED panicked
    /\ UNCHANGED <<collectorPc, workerUrl, workerResult, mainVars, feederVars,
                   wg, coordVars, inputVars, recvLog, scrapeLog, doneSends,
                   resultCloses>>

\* The range over resultChannel ends: the channel is closed.
CollectorSeeClosed ==
    /\ panicked = NoPanic
    /\ UNCHANGED chatVars
    /\ collectorPc = "recv"
    /\ resultClosed
    /\ collectorPc' = "deliver"
    /\ UNCHANGED panicked
    /\ UNCHANGED <<results, resultCount, mainVars, feederVars, workerVars, wg,
                   coordVars, inputVars, histVars>>

\* done <- results, met by main's: results := <-done
Deliver ==
    /\ panicked = NoPanic
    /\ UNCHANGED chatVars
    /\ collectorPc = "deliver"
    /\ mainPc = "waitDone"
    /\ mainResults' = results
    /\ mainPc' = "summary"
    /\ collectorPc' = "done"
    /\ doneSends' = doneSends + 1
    /\ UNCHANGED panicked
    /\ UNCHANGED <<spawnI, results, resultCount, feederVars, workerVars, wg,
                   coordVars, inputVars, recvLog, scrapeLog, arrivals,
                   resultCloses>>

\* ---------------------------------------------------------- coordinator
\* Mutant: the coordinator closes without waiting for the workers.
CoordWait_NoBarrier ==
    /\ panicked = NoPanic
    /\ UNCHANGED chatVars
    /\ coordPc = "wait"
    /\ coordPc' = "close"
    /\ UNCHANGED panicked
    /\ UNCHANGED <<resultClosed, mainVars, feederVars, workerVars, wg,
                   collectorVars, inputVars, histVars>>

\* Mutant: the coordinator stops waiting while one worker is still counted.
CoordWait_OffByOne ==
    /\ panicked = NoPanic
    /\ UNCHANGED chatVars
    /\ coordPc = "wait"
    /\ wg <= 1
    /\ coordPc' = "close"
    /\ UNCHANGED panicked
    /\ UNCHANGED <<resultClosed, mainVars, feederVars, workerVars, wg,
                   collectorVars, inputVars, histVars>>

\* wg.Wait() returns when the counter is zero.
CoordWait ==
    /\ panicked = NoPanic
    /\ UNCHANGED chatVars
    /\ coordPc = "wait"
    /\ wg = 0
    /\ coordPc' = "close"
    /\ UNCHANGED panicked
    /\ UNCHANGED <<resultClosed, mainVars, feederVars, workerVars, wg,
                   collectorVars, inputVars, histVars>>

\* close(resultChannel)
CoordClose ==
    /\ panicked = NoPanic
    /\ UNCHANGED chatVars
    /\ coordPc = "close"
    /\ panicked' = IF resultClosed THEN CloseOfClosed ELSE panicked
    /\ resultClosed' = TRUE
    /\ resultCloses' = resultCloses + 1
    /\ coordPc' = "done"
    /\ UNCHANGED <<mainVars, feederVars, workerVars, wg, collectorVars,
                   inputVars, recvLog, scrapeLog, arrivals, doneSends>>

\* ------------------------------------------------------- specifications
Next ==
    \/ MainGoFeeder
    \/ MainGoCollector
    \/ MainSpawnWorker
    \/ MainSpawnDone
    \/ MainGoCoordinator
    \/ \E w \in WorkerIds : Feed(w)
    \/ FeederClose
    \/ \E w \in WorkerIds : WorkerScrape(w)
    \/ \E w \in WorkerIds : WorkerSeeClosed(w)
    \/ \E w \in WorkerIds : WorkerDone(w)
    \/ \E w \in WorkerIds : Collect(w)
    \/ CollectorSeeClosed
    \/ Deliver
    \/ CoordWait
    \/ CoordClose

Spec == Init /\ [][Next]_vars

\* Every goroutine that can run eventually runs (the Go scheduler).
FairSpec == Spec /\ WF_vars(Next)

\* ---------------------------------------------------------- chat server
\* The worker pool is another program: in the chat server's specification
\* its variables keep the values of a pool that was never started.
PoolAbsent ==
    /\ numWorkers = 0
    /\ urls = <<>>
    /\ mainPc = "goFeeder"
    /\ spawnI = 1
    /\ mainResults = <<>>
    /\ feederPc = "absent"
    /\ feedI = 1
    /\ urlClosed = FALSE
    /\ workerPc = [w \in WorkerIds |-> "absent"]
    /\ workerUrl = [w \in WorkerIds |-> NoUrl]
    /\ workerResult = [w \in WorkerIds |-> NoResult]
    /\ wg = 0
    /\ coordPc = "absent"
    /\ resultClosed = FALSE
    /\ collectorPc = "absent"
    /\ results = <<>>
    /\ resultCount = 0
    /\ panicked = NoPanic
    /\ recvLog = <<>>
    /\ scrapeLog = [w \in WorkerIds |-> <<>>]
    /\ arrivals = <<>>
    /\ doneSends = 0
    /\ resultCloses = 0

ChatInit == ChatStart /\ PoolAbsent

\* A client connects to /ws: the http server runs handleWS(ws) in a new
\* goroutine, which is now before its map write.
Connect(c) ==
    /\ fatal = NoFatal
    /\ hPc[c] = "idle"
    /\ hPc' = [hPc EXCEPT ![c] = "insert"]
    /\ UNCHANGED <<conns, writers, toVisit, sent, fatal, attempts, endedAtStart>>
    /\ UNCHANGED poolVars

\* Mutant: handleWS takes a lock that broadcast and the other handlers'
\* map writes hold: the write waits while the map is in use.
InsertBegin_Locked(c) ==
    /\ fatal = NoFatal
    /\ hPc[c] = "insert"
    /\ writers = {}
    /\ \A h \in ConnIds : hPc[h] # "iterate"
    /\ hPc' = [hPc EXCEPT ![c] = "inserting"]
    /\ writers' = writers \cup {c}
    /\ UNCHANGED <<conns, toVisit, sent, fatal, attempts, endedAtStart>>
    /\ UNCHANGED poolVars

\* handleWS: s.conns[ws] = true begins.  Nothing makes it wait for another
\* handler's write or for a broadcast's iteration.  If another handler is in
\* the middle of its own write the runtime may (or may not) detect it and
\* end the program.
InsertBegin(c) ==
    /\ fatal = NoFatal
    /\ hPc[c] = "insert"
    /\ \/ /\ hPc' = [hPc EXCEPT ![c] = "inserting"]
          /\ writers' = writers \cup {c}
          /\ UNCHANGED fatal
       \/ /\ writers # {}
          /\ fatal' = ConcurrentMapWrites
          /\ UNCHANGED <<hPc, writers>>
    /\ UNCHANGED <<conns, toVisit, sent, attempts, endedAtStart>>
    /\ UNCHANGED poolVars

\* handleWS: s.conns[ws] = true ends and the handler enters readLoop.  A
\* write that overlapped another handler's write may be lost (the two
\* writes race for the same bucket); an iteration that is under way may or
\* may not produce the new key.
InsertEnd(c) ==
    /\ fatal = NoFatal
    /\ hPc[c] = "inserting"
    /\ writers' = writers \ {c}
    /\ \/ conns' = conns \cup {c}
       \/ /\ writers \ {c} # {}
          /\ conns' = conns
    /\ \E seen \in SUBSET {h \in ConnIds : hPc[h] = "iterate"} :
          toVisit' = [h \in ConnIds |->
                         IF h \in seen /\ c \in conns'
                         THEN toVisit[h] \cup {c} ELSE toVisit[h]]
    /\ hPc' = [hPc EXCEPT ![c] = "read"]
    /\ UNCHANGED <<sent, fatal, attempts, endedAtStart>>
    /\ UNCHANGED poolVars

\* readLoop: ws.Read returns a message and broadcast(msg) starts its range
\* over s.conns (which ends at once when the map is empty).
ReadMsg(c) ==
    /\ fatal = NoFatal
    /\ hPc[c] = "read"
    /\ sent[c] < MaxMsgs
    /\ sent' = [sent EXCEPT ![c] = @ + 1]
    /\ toVisit' = [toVisit EXCEPT ![c] = conns]
    /\ endedAtStart' = [endedAtStart EXCEPT ![c] =
                            {x \in ConnIds : hPc[x] = "ended"}]
    /\ hPc' = [hPc EXCEPT ![c] = IF conns = {} THEN "read" ELSE "iterate"]
    /\ UNCHANGED <<conns, writers, fatal, attempts>>
    /\ UNCHANGED poolVars

\* readLoop: ws.Read returns an error other than io.EOF: it is printed and
\* the loop continues.
ReadError(c) ==
    /\ fatal = NoFatal
    /\ hPc[c] = "read"
    /\ UNCHANGED chatVars
    /\ UNCHANGED poolVars

\* Mutant: on io.EOF the handler deletes its connection from s.conns.
ReadEOF_Unregister(c) ==
    /\ fatal = NoFatal
    /\ hPc[c] = "read"
    /\ hPc' = [hPc EXCEPT ![c] = "ended"]
    /\ conns' = conns \ {c}
    /\ UNCHANGED <<writers, toVisit, sent, fatal, attempts, endedAtStart>>
    /\ UNCHANGED poolVars

\* readLoop: ws.Read returns io.EOF: break; handleWS returns.  The
\* connection stays in s.conns.
ReadEOF(c) ==
    /\ fatal = NoFatal
    /\ hPc[c] = "read"
    /\ hPc' = [hPc EXCEPT ![c] = "ended"]
    /\ UNCHANGED <<conns, writers, toVisit, sent, fatal, attempts, endedAtStart>>
    /\ UNCHANGED poolVars

\* broadcast: the range produces the next key ws and go func(ws) { ws.Write(b) }
\* is started (its only effects are the write on the socket and a printed
\* error); after the last key the handler is back in readLoop.  If a handler
\* is in the middle of its map write the runtime may (or may not) detect it
\* and end the program.
BroadcastStep(h) ==
    /\ fatal = NoFatal
    /\ hPc[h] = "iterate"
    /\ \/ \E ws \in toVisit[h] :
            /\ attempts' = attempts \cup {<<h, sent[h], ws>>}
            /\ toVisit' = [toVisit EXCEPT ![h] = @ \ {ws}]
            /\ hPc' = [hPc EXCEPT ![h] =
                          IF toVisit[h] = {ws} THEN "read" ELSE "iterate"]
            /\ UNCHANGED fatal
       \/ /\ writers # {}
          /\ fatal' = ConcurrentMapIteration
          /\ UNCHANGED <<attempts, toVisit, hPc>>
    /\ UNCHANGED <<conns, writers, sent, endedAtStart>>
    /\ UNCHANGED poolVars

ChatNext ==
    \/ \E c \in ConnIds : Connect(c)
    \/ \E c \in ConnIds : InsertBegin(c)
    \/ \E c \in ConnIds : InsertEnd(c)
    \/ \E c \in ConnIds : ReadMsg(c)
    \/ \E c \in ConnIds : ReadError(c)
    \/ \E c \in ConnIds : ReadEOF(c)
    \/ \E h \in ConnIds : BroadcastStep(h)

ChatSpec == ChatInit /\ [][ChatNext]_vars

\* ------------------------------------------------------------ vocabulary
\* The workers main starts.
Workers == 1..numWorkers

Delivered == mainPc = "summary"

AllWorkersExited == \A w \in Workers : workerPc[w] = "exited"

\* The tasks whose results the collector has received.
ArrivedTasks == {arrivals[k].task : k \in 1..Len(arrivals)}

\* ---------------------------------------------------------------- claims

\* C1: for every worker count N >= 1 and every task list of size M (M = 0
\* included), the collection main receives on done holds exactly M results,
\* exactly one for each task the feeder fed: none missing, none twice.
C1_OneResultPerTask ==
    (numWorkers >= 1 /\ Delivered) =>
        /\ Len(mainResults) = Len(urls)
        /\ Len(arrivals) = Len(urls)
        /\ ArrivedTasks = 1..Len(urls)
        /\ \A k \in 1..Len(mainResults) :
            /\ mainResults[k] = arrivals[k].result
            /\ mainResults[k].URL = urls[arrivals[k].task]

\* C1 witness: two workers, two tasks, both workers contributed, and the
\* two results have been delivered.
C1_Witness ==
    /\ Delivered
    /\ numWorkers = 2
    /\ Len(urls) = 2
    /\ Len(mainResults) = 2
    /\ {arrivals[k].from : k \in 1..Len(arrivals)} = {1, 2}

\* C2: the collector sends on done exactly once in every run, and never
\* before resultChannel is closed and every one of the N workers has called
\* wg.Done.
C2_DoneOnceAfterWorkers ==
    /\ doneSends <= 1
    /\ (collectorPc = "done" <=> doneSends = 1)
    /\ (Delivered <=> doneSends = 1)
    /\ (~ENABLED Next => doneSends = 1)
    /\ (doneSends >= 1 \/ collectorPc = "deliver") =>
           (resultClosed /\ AllWorkersExited /\ wg = 0)

\* C2 witness: the send on done has happened after two workers exited.
C2_Witness ==
    /\ doneSends = 1
    /\ numWorkers = 2
    /\ Len(urls) >= 2
    /\ AllWorkersExited

\* C3: for every N >= 1, every task list and every pattern of per-task
\* success or failure, under fair scheduling the pipeline does not deadlock:
\* the feeder eventually closes urlChannel, every worker eventually
\* terminates, the coordinator eventually closes resultChannel and main
\* eventually receives the collection from done.
C3_PipelineCompletes ==
    (numWorkers >= 1) =>
        /\ <>(urlClosed /\ feederPc = "done")
        /\ <>AllWorkersExited
        /\ <>(resultClosed /\ coordPc = "done")
        /\ <>Delivered

\* C3 witness: a run of two workers and two tasks, one of which failed and
\* one of which succeeded, has completed.
C3_Witness ==
    /\ numWorkers = 2
    /\ Len(urls) = 2
    /\ urlClosed
    /\ AllWorkersExited
    /\ resultClosed
    /\ Delivered
    /\ \E j, k \in 1..Len(mainResults) :
          mainResults[j].Error = "nil" /\ mainResults[k].Error # "nil"

\* C4: resultChannel is closed only by the coordinator, exactly once, and
\* only after every one of the N workers has terminated; in no reachable
\* state is resultChannel closed while some worker is still running.
C4_CloseAfterAllWorkers ==
    /\ resultCloses <= 1
    /\ (resultClosed <=> resultCloses = 1)
    /\ (resultClosed <=> coordPc = "done")
    /\ (resultClosed \/ coordPc = "close") =>
           (AllWorkersExited /\ wg = 0 /\ spawnI > numWorkers)

\* C4 witness: the coordinator has closed resultChannel after two workers,
\* which processed tasks, exited.
C4_Witness ==
    /\ resultClosed
    /\ resultCloses = 1
    /\ numWorkers = 2
    /\ Len(recvLog) >= 2
    /\ AllWorkersExited

\* C5: each task the feeder sends on urlChannel is received by exactly one
\* worker exactly once: no task is received by two workers, twice by one
\* worker, or never.
C5_EachTaskReceivedOnce ==
    /\ Len(recvLog) = feedI - 1
    /\ \A k \in 1..Len(recvLog) :
          /\ recvLog[k].task = k
          /\ recvLog[k].worker \in Workers
    /\ \A j, k \in 1..Len(recvLog) :
          recvLog[j].task = recvLog[k].task => j = k
    /\ urlClosed => {recvLog[k].task : k \in 1..Len(recvLog)} = 1..Len(urls)
    /\ \A w \in Workers :
          workerPc[w] \in {"scrape", "send"} =>
              /\ CurTask(w) \in 1..Len(urls)
              /\ workerUrl[w] = urls[CurTask(w)]

\* C5 witness: two tasks have been received, by two competing workers, and
\* urlChannel is closed.
C5_Witness ==
    /\ urlClosed
    /\ Len(urls) = 2
    /\ Len(recvLog) = 2
    /\ {recvLog[k].worker : k \in 1..Len(recvLog)} = {1, 2}

\* C6: a failed unit of work does not stop the worker or the run: the worker
\* records the error in that task's result, publishes it and goes on to the
\* next task, so for any choice of failing tasks the final collection has M
\* results and a result has a non-nil error exactly when its own task failed.
C6_FailureIsData ==
    (numWorkers >= 1) =>
        /\ \A k \in 1..Len(arrivals) :
              LET a == arrivals[k]
                  log == scrapeLog[a.from]
              IN /\ results[k] = a.result
                 /\ \E j \in 1..Len(log) : log[j].task = a.task
                 /\ \A j \in 1..Len(log) :
                       log[j].task = a.task =>
                           (log[j].failed <=> results[k].Error # "nil")
        /\ \A w \in Workers : \A j \in 1..Len(scrapeLog[w]) :
              \/ scrapeLog[w][j].task \in ArrivedTasks
              \/ /\ workerPc[w] = "send"
                 /\ CurTask(w) = scrapeLog[w][j].task
                 /\ j = Len(scrapeLog[w])
                 /\ (scrapeLog[w][j].failed <=> workerResult[w].Error # "nil")
        /\ Delivered =>
              /\ Len(mainResults) = Len(urls)
              /\ mainResults = results
              /\ Len(arrivals) = Len(results)

\* C6 witness: worker 1 published a failed result and afterwards received
\* another task; the run delivered two results, some with an error.
C6_Witness ==
    /\ Delivered
    /\ Len(urls) = 2
    /\ Len(mainResults) = 2
    /\ \E k \in 1..Len(mainResults) : mainResults[k].Error # "nil"
    /\ Len(scrapeLog[1]) >= 2
    /\ scrapeLog[1][1].failed

\* C7: with an invalid worker count N <= 0 the pipeline fails fast at
\* construction, before any worker, feeder, collector or coordinator step is
\* taken, and no collection of results is delivered to the caller.
C7_FailFastOnBadWorkerCount ==
    (numWorkers <= 0) =>
        \* no feeder step: nothing sent, urlChannel not closed
        /\ feedI = 1 /\ ~urlClosed /\ feederPc \in {"absent", "send"}
        \* no collector step
        /\ collectorPc \in {"absent", "recv"} /\ results = <<>>
        \* no coordinator step: wg.Wait has not returned
        /\ coordPc \in {"absent", "wait"} /\ ~resultClosed
        \* no worker
        /\ \A w \in WorkerIds : workerPc[w] = "absent"
        \* nothing delivered to the caller
        /\ ~Delivered
        /\ doneSends = 0

\* C8: with N = 1 the single worker processes the tasks in exactly the order
\* the feeder submitted them, and the final collection lists the results in
\* that same order.
C8_SingleWorkerKeepsOrder ==
    (numWorkers = 1) =>
        /\ \A j \in 1..Len(scrapeLog[1]) : scrapeLog[1][j].task = j
        /\ \A k \in 1..Len(recvLog) : recvLog[k] = [task |-> k, worker |-> 1]
        /\ \A k \in 1..Len(results) :
              /\ k <= Len(arrivals)
              /\ arrivals[k].task = k
              /\ results[k].URL = urls[k]
              /\ (results[k].Error # "nil" <=> scrapeLog[1][k].failed)
        /\ Delivered =>
              /\ Len(mainResults) = Len(urls)
              /\ \A k \in 1..Len(urls) :
                    /\ mainResults[k] = results[k]
                    /\ mainResults[k].URL = urls[k]

\* C8 witness: one worker, two tasks (different addresses), delivered.
C8_Witness ==
    /\ numWorkers = 1
    /\ Len(urls) = 2
    /\ urls[1] # urls[2]
    /\ Delivered
    /\ Len(mainResults) = 2

\* C9: a worker terminates only after it has observed urlChannel closed and
\* empty: no worker calls wg.Done while the feeder still has tasks to send
\* or while the worker holds a task whose result it has not published, and
\* no worker terminates because another worker's task failed.
C9_WorkerExitsOnlyOnExhaustion ==
    /\ \A w \in Workers :
          workerPc[w] \in {"return", "exited"} =>
              /\ urlClosed
              /\ feederPc = "done"
              /\ feedI > Len(urls)
              /\ \A k \in 1..Len(recvLog) :
                    recvLog[k].worker = w => recvLog[k].task \in ArrivedTasks
    /\ wg = Cardinality({w \in Workers : w < spawnI /\ workerPc[w] # "exited"})

\* C9 witness: worker 1 has called wg.Done after the channel was closed, in
\* a run in which worker 2's task failed and worker 1 processed a task itself.
C9_Witness ==
    /\ numWorkers = 2
    /\ workerPc[1] = "exited"
    /\ \E k \in 1..Len(recvLog) : recvLog[k].worker = 1
    /\ Len(scrapeLog[2]) >= 1
    /\ scrapeLog[2][1].failed

\* C10: the collector's collection starts empty and only grows by appending
\* at the end: after every step it equals the sequence of results received
\* from resultChannel so far, in arrival order, and the collection handed to
\* the caller is the full arrival sequence, nothing dropped or reordered.
C10_CollectionIsArrivalSequence ==
    /\ results = <<>>
    /\ [](/\ results = [k \in 1..Len(arrivals) |-> arrivals[k].result]
          /\ resultCount = Len(results)
          /\ (Delivered => mainResults = results)
          /\ (~Delivered => mainResults = <<>>))
    /\ [][\/ results' = results
          \/ /\ Len(results') = Len(results) + 1
             /\ SubSeq(results', 1, Len(results)) = results]_vars

\* C10 witness: two results arrived out of submission order and were
\* delivered.
C10_Witness ==
    /\ Delivered
    /\ Len(mainResults) = 2
    /\ arrivals[1].task = 2
    /\ mainResults[1].URL = urls[2]

\* C11: at the moment the coordinator closes resultChannel, every task that
\* any worker has received has already had its result received by the
\* collector: no result is pending, being computed or blocked in a send.
C11_NothingPendingAtClose ==
    (coordPc = "close" \/ resultClosed) =>
        /\ {recvLog[k].task : k \in 1..Len(recvLog)} = ArrivedTasks
        /\ Len(recvLog) = Len(arrivals)
        /\ Len(results) = Len(recvLog)
        /\ \A w \in WorkerIds : workerPc[w] \notin {"scrape", "send"}

\* C11 witness: the coordinator is about to close after two workers received
\* one task each and both results were collected.
C11_Witness ==
    /\ coordPc = "close"
    /\ ~resultClosed
    /\ numWorkers = 2
    /\ Len(arrivals) = 2
    /\ {recvLog[k].worker : k \in 1..Len(recvLog)} = {1, 2}

\* The workers that have completed (called wg.Done).
ExitedWorkers == {w \in WorkerIds : workerPc[w] = "exited"}

\* The coordinator's states after it was started: once every wg.Add has been
\* done the counter is N minus the completions, the coordinator leaves its
\* wait only at 0, with N completions, and resultChannel is closed exactly
\* in its terminal state.
CoordinatorStates ==
    (numWorkers >= 1 /\ coordPc # "absent") =>
        /\ spawnI > numWorkers
        /\ ExitedWorkers \subseteq Workers
        /\ wg = numWorkers - Cardinality(ExitedWorkers)
        /\ wg >= 0
        /\ (coordPc \in {"close", "done"} =>
                wg = 0 /\ Cardinality(ExitedWorkers) = numWorkers)
        /\ (resultClosed <=> coordPc = "done")

\* The coordinator's and the counter's transitions: the counter goes down by
\* one exactly in the step in which a worker completes, a completed worker
\* stays completed (one decrement per distinct worker), Waiting is left only
\* for the close and only at 0, and Closed is terminal.
CoordinatorSteps ==
    /\ (wg' = wg - 1 <=>
            \E w \in WorkerIds : workerPc[w] # "exited" /\ workerPc'[w] = "exited")
    /\ wg' \in {wg - 1, wg, wg + 1}
    /\ \A w \in WorkerIds : workerPc[w] = "exited" => workerPc'[w] = "exited"
    /\ Cardinality(ExitedWorkers') <= Cardinality(ExitedWorkers) + 1
    /\ (coordPc = "wait" /\ coordPc' # "wait") => (wg = 0 /\ coordPc' = "close")
    /\ (coordPc = "close" /\ coordPc' # "close") => (coordPc' = "done" /\ resultClosed')
    /\ (coordPc = "done") => (coordPc' = "done" /\ resultClosed' /\ wg' = wg)

\* The coordinator begins to wait with the counter at N.
CoordinatorStartsAtN ==
    (numWorkers >= 1 /\ coordPc = "absent" /\ coordPc' = "wait") => wg' = numWorkers

\* C12 (as stated): the coordinator follows Waiting(count = N) -> Closed: it
\* starts waiting with the counter equal to N, the counter decreases by one
\* on each worker completion, exactly N decrements (one per distinct worker)
\* happen before the close, the close happens at 0, and Closed is terminal.
C12_StartsWaitingAtN ==
    /\ []CoordinatorStates
    /\ [][CoordinatorSteps]_vars
    /\ [][CoordinatorStartsAtN]_vars

\* C12 (amended): as above, except that the counter the coordinator starts
\* waiting with is N minus the number of workers that have already
\* completed, which may be less than N.
C12_CoordinatorStateMachine ==
    /\ []CoordinatorStates
    /\ [][CoordinatorSteps]_vars
    /\ [][(numWorkers >= 1 /\ coordPc = "absent" /\ coordPc' = "wait") =>
              wg' = numWorkers - Cardinality(ExitedWorkers)]_vars

\* C12 witness: the coordinator is waiting with the counter at 1 of N = 2,
\* one worker having completed and the other still holding a task.
C12_Witness ==
    /\ coordPc = "wait"
    /\ numWorkers = 2
    /\ wg = 1
    /\ Cardinality(ExitedWorkers) = 1
    /\ \E w \in Workers : workerPc[w] = "send"

\* The tasks worker w has received whose results the collector has not
\* received.
Held(w) ==
    {recvLog[k].task : k \in {j \in 1..Len(recvLog) : recvLog[j].worker = w}}
        \ ArrivedTasks

\* C13: the result handoff is unbuffered: a worker's publish blocks until the
\* collector receives it and a worker receives no other task before that; so
\* in every state at most N received tasks have results not yet collected,
\* and each worker holds at most one task.
C13_AtMostOneTaskPerWorker ==
    (numWorkers >= 1) =>
        /\ \A w \in WorkerIds :
              /\ Cardinality(Held(w)) <= 1
              /\ (Held(w) # {} <=> workerPc[w] \in {"scrape", "send"})
              /\ (Held(w) # {} => Held(w) = {CurTask(w)})
              /\ (workerPc[w] = "send" =>
                      /\ workerResult[w].URL = urls[CurTask(w)]
                      /\ workerResult[w].URL = workerUrl[w])
        /\ Len(recvLog) - Len(arrivals) =
              Cardinality({w \in WorkerIds : workerPc[w] \in {"scrape", "send"}})
        /\ Len(recvLog) - Len(arrivals) <= numWorkers
        /\ Len(recvLog) - Len(arrivals) >= 0

\* C13 witness: both of two workers are blocked in their publish, each with
\* one task; N = 2 results are outstanding.
C13_Witness ==
    /\ numWorkers = 2
    /\ workerPc[1] = "send"
    /\ workerPc[2] = "send"
    /\ Len(recvLog) - Len(arrivals) = 2

\* C14: the feeder emits the tasks in the fixed order of the task list, one
\* at a time: task i+1 is never received by any worker before task i has
\* been received by some worker, and the feeder closes urlChannel exactly
\* once, only after the last task has been received by a worker.
C14_FeederInOrderThenClose ==
    /\ [](/\ Len(recvLog) = feedI - 1
          /\ feedI \in 1..(Len(urls) + 1)
          /\ \A k \in 1..Len(recvLog) :
                /\ recvLog[k].task = k
                /\ \A j \in 1..(k - 1) : recvLog[j].task < recvLog[k].task
          /\ (urlClosed <=> feederPc = "done")
          /\ (urlClosed => Len(recvLog) = Len(urls))
          /\ panicked # CloseOfClosed)
    /\ [][/\ \/ feedI' = feedI /\ recvLog' = recvLog
             \/ /\ feedI' = feedI + 1
                /\ recvLog' = Append(recvLog, recvLog'[Len(recvLog')])
                /\ recvLog'[Len(recvLog')].task = feedI
          /\ (urlClosed' # urlClosed) =>
                /\ ~urlClosed
                /\ feederPc = "send" /\ feederPc' = "done"
                /\ feedI > Len(urls)
          /\ urlClosed => (urlClosed' /\ feederPc' = "done" /\ feedI' = feedI)]_vars

\* C14 witness: urlChannel is closed after two tasks were received in order.
C14_Witness ==
    /\ urlClosed
    /\ feederPc = "done"
    /\ Len(urls) = 2
    /\ numWorkers = 2
    /\ recvLog[1].task = 1
    /\ recvLog[2].task = 2
    /\ recvLog[1].worker = 2

\* The position in the order of receives on urlChannel at which task t was
\* received.
RecvPos(t) == CHOOSE k \in 1..Len(recvLog) : recvLog[k].task = t

\* C15: the results of tasks processed by the same worker appear in the
\* final collection in the order in which that worker received those tasks,
\* for every N >= 1 and every interleaving (results of different workers may
\* appear in any relative order).
C15_PerWorkerOrderKept ==
    (numWorkers >= 1) =>
        /\ \A j, k \in 1..Len(arrivals) :
              (j < k /\ arrivals[j].from = arrivals[k].from) =>
                  /\ recvLog[RecvPos(arrivals[j].task)].worker = arrivals[j].from
                  /\ recvLog[RecvPos(arrivals[k].task)].worker = arrivals[k].from
                  /\ RecvPos(arrivals[j].task) < RecvPos(arrivals[k].task)
        /\ \A k \in 1..Len(results) :
              /\ k <= Len(arrivals)
              /\ results[k] = arrivals[k].result
              /\ results[k].URL = urls[arrivals[k].task]
        /\ Delivered => (mainResults = results /\ Len(results) = Len(arrivals))

\* C15 witness: with two workers running, worker 2 received both tasks and
\* its two results were delivered.
C15_Witness ==
    /\ Delivered
    /\ numWorkers = 2
    /\ Len(mainResults) = 2
    /\ arrivals[1].from = 2
    /\ arrivals[2].from = 2
    /\ workerPc[1] = "exited"

\* C15 (second half): a run in which the results of two different workers
\* were delivered against the order of submission.
C15_OtherOrderWitness ==
    /\ Delivered
    /\ Len(mainResults) = 2
    /\ arrivals[1].from # arrivals[2].from
    /\ arrivals[1].task > arrivals[2].task

\* C16: for N >= 1 no channel or barrier misuse that would panic is
\* reachable: no worker sends on resultChannel after it is closed, the
\* feeder never sends on urlChannel after closing it, neither channel is
\* closed twice, and the WaitGroup counter never becomes negative.
C16_NoPanic ==
    (numWorkers >= 1) =>
        /\ panicked = NoPanic
        /\ \A w \in WorkerIds : ~(workerPc[w] = "send" /\ resultClosed)
        /\ ~(feederPc = "send" /\ urlClosed)
        /\ ~(coordPc = "close" /\ resultClosed)
        /\ resultCloses <= 1
        /\ wg >= 0
        /\ \A w \in WorkerIds : workerPc[w] = "return" => wg >= 1

\* C16 witness: a run of two workers and two tasks in which both channels
\* were closed, both workers called wg.Done and the collection was
\* delivered, without a panic.
C16_Witness ==
    /\ panicked = NoPanic
    /\ numWorkers = 2
    /\ Len(arrivals) = 2
    /\ urlClosed
    /\ resultClosed
    /\ resultCloses = 1
    /\ wg = 0
    /\ Cardinality(ExitedWorkers) = 2
    /\ Delivered

\* C17: in the chat server the connection set is shared by concurrently
\* running handlers with no synchronization: nothing makes handleWS's map
\* write wait for a broadcast that is iterating over conns (or the iteration
\* wait for the write), so a state is reachable in which one handler inserts
\* into conns while another is iterating over conns in broadcast
\* (C17_Witness is that state).
C17_NoSynchronization ==
    (fatal = NoFatal) =>
        /\ \A c \in ConnIds : hPc[c] = "insert" => ENABLED InsertBegin(c)
        /\ \A h \in ConnIds : hPc[h] = "iterate" => ENABLED BroadcastStep(h)
        /\ \A c \in ConnIds : hPc[c] = "inserting" <=> c \in writers

\* C17 witness: handler 1 is in the middle of s.conns[ws] = true while
\* handler 2 is in broadcast's range over s.conns with keys still to come.
C17_Witness ==
    /\ fatal = NoFatal
    /\ hPc[1] = "inserting"
    /\ 1 \in writers
    /\ hPc[2] = "iterate"
    /\ toVisit[2] # {}

\* C18: in the chat server a connection, once registered in conns by
\* handleWS, is never removed: the connection set only grows, and after a
\* client's read loop ends on EOF every later broadcast from any other
\* client still attempts a write to that ended connection (and every
\* broadcast is also written back to its own sender).
C18_ConnectionsNeverRemoved ==
    \* a handler that is past its map write has its connection in conns
    /\ [](\A c \in ConnIds : hPc[c] \in {"read", "iterate", "ended"} => c \in conns)
    \* the set only grows
    /\ [][conns \subseteq conns']_vars
    \* a broadcast that has gone through the map started a write to every
    \* connection that had ended before it began, and to its own sender
    /\ [][\A h \in ConnIds :
            (sent'[h] = sent[h] + 1 /\ hPc'[h] = "read") =>
                <<h, sent'[h], h>> \in attempts']_vars
    /\ [][\A h \in ConnIds :
            (hPc[h] = "iterate" /\ hPc'[h] = "read") =>
                /\ <<h, sent[h], h>> \in attempts'
                /\ \A c \in endedAtStart[h] : <<h, sent[h], c>> \in attempts']_vars

====
